---- MODULE Spec2Model ----
(***************************************************************************)
(* The two brace-debugging scripts of the repository, run on one file:     *)
(*                                                                         *)
(*   W  debug_braces.py       scans the whole file, collects the lines     *)
(*                            whose braces change the counter, then prints *)
(*                            a window of them and a final message;        *)
(*   F  debug_braces_full.py  prints every change while scanning, with two *)
(*                            heuristics, and stops past a line cutoff.    *)
(*                                                                         *)
(* Both scripts read the same file with readlines() before their loops     *)
(* start, and iteration i of either loop looks at line i only.  The file   *)
(* is therefore modelled as an input whose line i is fixed when the first  *)
(* loop reaches it: `nlines' lines are fixed so far, `nonblank' holds the  *)
(* text of those that are not the empty line "\n", and `eof' says that     *)
(* the file has no further line.  A line is a sequence of characters, the  *)
(* trailing newline included, as readlines() returns it.                   *)
(***************************************************************************)
EXTENDS Integers, Sequences, FiniteSets, TLC

VARIABLES
    exists,          \* the file can be opened and read
    nlines,          \* lines: number of lines of the file fixed so far
    nonblank,        \* lines: line number -> text, for the lines other than "\n"
    eof,             \* lines: the file ends after line nlines
    pcW,             \* W: position in debug_braces.py
    iW,              \* W: lines scanned (loop variable i)
    brace_countW,    \* W: brace_count
    line_braces,     \* W: line_braces
    rW,              \* W: index of the next record of the report loop
    outW,            \* W: what was printed
    pcF,             \* F: position in debug_braces_full.py
    iF,              \* F: lines scanned (loop variable i)
    brace_countF,    \* F: brace_count
    outF             \* F: what was printed

fileVars == <<exists, nlines, nonblank, eof>>
wVars == <<pcW, iW, brace_countW, line_braces, rW, outW>>
fVars == <<pcF, iF, brace_countF, outF>>
vars == <<exists, nlines, nonblank, eof, pcW, iW, brace_countW, line_braces,
          rW, outW, pcF, iF, brace_countF, outF>>

---------------------------------------------------------------------------
(* Program constants *)

WindowStart == 1200
WindowEnd == 1280
Cutoff == 1300
expected_class_level == 1
MaxContent == 80

(* Bounds of the input *)

\* files of at most MaxShort lines are arbitrary over ShortLines
MaxShort == 3
\* longer files: at most MaxMarked lines other than "\n"
MaxMarked == 2
\* ... each within Near lines below, or Near + 1 lines above, a threshold
Near == 1

Thresholds == {WindowStart, WindowEnd, Cutoff}
MaxLines == Cutoff + Near + 1
Hot(i) == \E t \in Thresholds : t - Near <= i /\ i <= t + Near + 1

Blank == <<"\n">>
Text == <<"x", "\n">>
Open == <<"{", "\n">>
Close == <<"}", "\n">>
Open2 == <<"{", "{", "\n">>
Bal == <<"{", "}", "\n">>
Rev == <<" ", "}", "{", "\n">>
FuncOpen == <<"f", "u", "n", "c", " ", "{", "\n">>

ShortLines == {Blank, Text, Open, Close, Open2, Bal, Rev, FuncOpen}
MarkLines == {Blank, Open, Close}

---------------------------------------------------------------------------
(* Helpers *)

Min2(a, b) == IF a <= b THEN a ELSE b

\* lines[i - 1]
LineAt(i) == IF i \in DOMAIN nonblank THEN nonblank[i] ELSE Blank

\* the effect of one character on the counter (the if / elif of the inner loop)
\* variant: the elif branch for '}' is missing
BraceStep_NoClose(char) == IF char = "{" THEN 1 ELSE 0
BraceStep(char) == IF char = "{" THEN 1 ELSE IF char = "}" THEN -1 ELSE 0

\* the inner loop `for char in line', from character k on
RECURSIVE CharLoop(_, _)
CharLoop(line, k) ==
    IF k > Len(line) THEN 0 ELSE BraceStep(line[k]) + CharLoop(line, k + 1)

LineChange(line) == CharLoop(line, 1)

\* 'func ' in line
Keyword == <<"f", "u", "n", "c", " ">>
ContainsFunc(line) ==
    \E k \in 1..(Len(line) - Len(Keyword) + 1) :
        SubSeq(line, k, k + Len(Keyword) - 1) = Keyword

\* line.strip()
Whitespace == {" ", "\n", "\t", "\r"}
Strip(line) ==
    LET keep == {k \in 1..Len(line) : line[k] \notin Whitespace}
    IN  IF keep = {} THEN <<>>
        ELSE SubSeq(line, CHOOSE a \in keep : \A b \in keep : a <= b,
                          CHOOSE a \in keep : \A b \in keep : a >= b)

\* content[:80]
Truncate(content) == SubSeq(content, 1, Min2(Len(content), MaxContent))

---------------------------------------------------------------------------
(* The file *)

Init ==
    /\ exists \in BOOLEAN
    /\ nlines = 0
    /\ nonblank = <<>>
    /\ eof = FALSE
    /\ pcW = "open" /\ iW = 0 /\ brace_countW = 0 /\ line_braces = <<>>
    /\ rW = 1 /\ outW = <<>>
    /\ pcF = "open" /\ iF = 0 /\ brace_countF = 0 /\ outF = <<>>

\* both loops have dealt with every line fixed so far
CaughtUp ==
    /\ pcW = "scan" /\ iW = nlines
    /\ pcF # "open"
    /\ pcF = "scan" => iF = nlines

LineChoices(i) ==
    IF i <= MaxShort THEN ShortLines
    ELSE IF Hot(i) /\ Cardinality(DOMAIN nonblank) < MaxMarked THEN MarkLines
    ELSE {Blank}

\* line nlines + 1 of the file is `line'
FileLine(line) ==
    /\ CaughtUp /\ ~eof
    /\ nlines < MaxLines
    /\ nlines + 1 > MaxShort => \A j \in DOMAIN nonblank : j > MaxShort
    /\ line \in LineChoices(nlines + 1)
    /\ nlines' = nlines + 1
    /\ nonblank' = IF line = Blank THEN nonblank
                   ELSE [j \in DOMAIN nonblank \cup {nlines + 1} |->
                            IF j = nlines + 1 THEN line ELSE nonblank[j]]
    /\ UNCHANGED <<exists, eof>>
    /\ UNCHANGED wVars /\ UNCHANGED fVars

\* the file has nlines lines
FileEnd ==
    /\ CaughtUp /\ ~eof
    /\ nlines <= MaxShort \/ Hot(nlines) \/ nlines = MaxLines
    /\ eof' = TRUE
    /\ UNCHANGED <<exists, nlines, nonblank>>
    /\ UNCHANGED wVars /\ UNCHANGED fVars

---------------------------------------------------------------------------
(* W: debug_braces.py *)

\* with open(...) as f: lines = f.readlines(); brace_count = 0; line_braces = []
OpenW ==
    /\ pcW = "open"
    /\ pcW' = IF exists THEN "scan" ELSE "crashed"
    /\ UNCHANGED <<iW, brace_countW, line_braces, rW, outW>>
    /\ UNCHANGED fileVars /\ UNCHANGED fVars

\* if line_brace_change != 0
\* variant: `> 0' in place of `!= 0'
RecordsLine_OnlyRises(line_brace_change) == line_brace_change > 0
RecordsLine(line_brace_change) == line_brace_change # 0

\* one iteration of `for i, line in enumerate(lines, 1)'
ScanLineW ==
    /\ pcW = "scan" /\ iW < nlines
    /\ LET i == iW + 1
           line == LineAt(i)
           line_brace_change == LineChange(line)
           brace_count == brace_countW + LineChange(line)
       IN  /\ iW' = i
           /\ brace_countW' = brace_count
           /\ line_braces' =
                IF RecordsLine(line_brace_change)
                THEN Append(line_braces,
                            [line_num |-> i, change |-> line_brace_change,
                             total |-> brace_count, content |-> Strip(line)])
                ELSE line_braces
    /\ UNCHANGED <<pcW, rW, outW>>
    /\ UNCHANGED fileVars /\ UNCHANGED fVars

\* the scan loop is over: print('Lines with brace changes around ...')
HeaderW ==
    /\ pcW = "scan" /\ eof /\ iW = nlines
    /\ outW' = Append(outW, [kind |-> "header"])
    /\ pcW' = "report"
    /\ rW' = 1
    /\ UNCHANGED <<iW, brace_countW, line_braces>>
    /\ UNCHANGED fileVars /\ UNCHANGED fVars

\* if line_num >= 1200
PrintsRecord(line_num) == line_num >= WindowStart

\* if line_num >= 1280: break
\* variant: `>' in place of `>='
StopsReport_Late(line_num) == line_num > WindowEnd
StopsReport(line_num) == line_num >= WindowEnd

\* one iteration of `for line_num, change, total, content in line_braces'
ReportW ==
    /\ pcW = "report" /\ rW <= Len(line_braces)
    /\ LET rec == line_braces[rW]
       IN  /\ outW' =
                IF PrintsRecord(rec.line_num)
                THEN Append(outW,
                            [kind |-> "change", line_num |-> rec.line_num,
                             change |-> rec.change, total |-> rec.total,
                             content |-> Truncate(rec.content)])
                ELSE outW
           /\ IF StopsReport(rec.line_num)
              THEN pcW' = "final" /\ rW' = rW
              ELSE pcW' = pcW /\ rW' = rW + 1
    /\ UNCHANGED <<iW, brace_countW, line_braces>>
    /\ UNCHANGED fileVars /\ UNCHANGED fVars

\* after the report loop (break or exhausted):
\* print(f'Final brace count at line 1280: {brace_count}')
FinalW ==
    /\ \/ pcW = "final"
       \/ pcW = "report" /\ rW > Len(line_braces)
    /\ outW' = Append(outW, [kind |-> "final", count |-> brace_countW])
    /\ pcW' = "done"
    /\ UNCHANGED <<iW, brace_countW, line_braces, rW>>
    /\ UNCHANGED fileVars /\ UNCHANGED fVars

---------------------------------------------------------------------------
(* F: debug_braces_full.py *)

\* with open(...) as f: lines = f.readlines(); brace_count = 0;
\* print('Tracking brace imbalances:')
\* variant: the header is printed before the file is opened
OpenF_HeaderFirst ==
    /\ pcF = "open"
    /\ outF' = Append(outF, [kind |-> "header"])
    /\ pcF' = IF exists THEN "scan" ELSE "crashed"
    /\ UNCHANGED <<iF, brace_countF>>
    /\ UNCHANGED fileVars /\ UNCHANGED wVars
OpenF ==
    /\ pcF = "open"
    /\ IF exists
       THEN pcF' = "scan" /\ outF' = Append(outF, [kind |-> "header"])
       ELSE pcF' = "crashed" /\ outF' = outF
    /\ UNCHANGED <<iF, brace_countF>>
    /\ UNCHANGED fileVars /\ UNCHANGED wVars

\* if prev_count != brace_count
\* variant: `<' in place of `!='
PrintsChange_OnlyRises(prev_count, brace_count) == brace_count > prev_count
PrintsChange(prev_count, brace_count) == prev_count # brace_count

\* the two heuristics (if / elif) that set `suspicious'
WrongLevel == " [SUSPICIOUS: function starts at wrong level]"
BelowClass == " [SUSPICIOUS: below class level]"
\* variant: the first threshold is one too high
Suspicious_DeeperOnly(brace_count, line, change) ==
    IF brace_count > expected_class_level + 2 /\ ContainsFunc(line) /\ change > 0
    THEN WrongLevel
    ELSE IF brace_count < expected_class_level /\ ~ContainsFunc(line)
    THEN BelowClass
    ELSE ""
\* variant: the elif does not look for 'func '
Suspicious_AnyLine(brace_count, line, change) ==
    IF brace_count > expected_class_level + 1 /\ ContainsFunc(line) /\ change > 0
    THEN WrongLevel
    ELSE IF brace_count < expected_class_level
    THEN BelowClass
    ELSE ""
Suspicious(brace_count, line, change) ==
    IF brace_count > expected_class_level + 1 /\ ContainsFunc(line) /\ change > 0
    THEN WrongLevel
    ELSE IF brace_count < expected_class_level /\ ~ContainsFunc(line)
    THEN BelowClass
    ELSE ""

\* if i > 1300: break
\* variants: the break is missing; `>=' in place of `>'
StopsScan_Never(i) == FALSE
StopsScan_Early(i) == i >= Cutoff
StopsScan(i) == i > Cutoff

\* one iteration of `for i, line in enumerate(lines, 1)'
ScanLineF ==
    /\ pcF = "scan" /\ iF < nlines
    /\ LET i == iF + 1
           line == LineAt(i)
           prev_count == brace_countF
           brace_count == brace_countF + LineChange(line)
           change == brace_count - prev_count
       IN  /\ iF' = i
           /\ brace_countF' = brace_count
           /\ IF PrintsChange(prev_count, brace_count)
              THEN /\ outF' = Append(outF,
                            [kind |-> "change", line_num |-> i, change |-> change,
                             total |-> brace_count,
                             content |-> Truncate(Strip(line)),
                             suspicious |-> Suspicious(brace_count, line, change)])
                   /\ pcF' = IF StopsScan(i) THEN "final" ELSE pcF
              ELSE /\ outF' = outF
                   /\ pcF' = pcF
    /\ UNCHANGED fileVars /\ UNCHANGED wVars

\* after the scan loop (break or exhausted):
\* print(f'\nFinal analysis: Expected class level = ..., Current = {brace_count}')
FinalF ==
    /\ \/ pcF = "final"
       \/ pcF = "scan" /\ eof /\ iF = nlines
    /\ outF' = Append(outF, [kind |-> "final", expected |-> expected_class_level,
                             count |-> brace_countF])
    /\ pcF' = "done"
    /\ UNCHANGED <<iF, brace_countF>>
    /\ UNCHANGED fileVars /\ UNCHANGED wVars

---------------------------------------------------------------------------

Next ==
    \/ \E line \in ShortLines : FileLine(line)
    \/ FileEnd
    \/ OpenW
    \/ ScanLineW
    \/ HeaderW
    \/ ReportW
    \/ FinalW
    \/ OpenF
    \/ ScanLineF
    \/ FinalF

Spec == Init /\ [][Next]_vars

---------------------------------------------------------------------------
(* What the claims speak of, stated on the file and on the output *)

\* the number of '{' minus the number of '}' of a line
NetBraces(line) ==
    Cardinality({k \in 1..Len(line) : line[k] = "{"})
  - Cardinality({k \in 1..Len(line) : line[k] = "}"})

RECURSIVE SumNet(_)
SumNet(S) ==
    IF S = {} THEN 0
    ELSE LET j == CHOOSE x \in S : TRUE
         IN  NetBraces(nonblank[j]) + SumNet(S \ {j})

\* '{' minus '}' over lines 1..i of the file (the line "\n" has neither)
CumBraces(i) == SumNet({j \in DOMAIN nonblank : j <= i})

IsChange(item) == item.kind = "change"
Changes(out) == SelectSeq(out, IsChange)
Triples(recs) ==
    [k \in 1..Len(recs) |-> <<recs[k].line_num, recs[k].change, recs[k].total>>]
Totals(recs) == [k \in 1..Len(recs) |-> recs[k].total]

\* the counter of the closing message (the last thing a finished script printed)
FinalW_count == outW[Len(outW)].count
FinalF_count == outF[Len(outF)].count

\* the lines past the cutoff whose braces change the counter
PastCutoffChanges ==
    {j \in DOMAIN nonblank : j > Cutoff /\ NetBraces(nonblank[j]) # 0}

\* the last line F scans in a file that has ended
LastScannedF ==
    IF PastCutoffChanges = {} THEN nlines
    ELSE CHOOSE j \in PastCutoffChanges : \A m \in PastCutoffChanges : j <= m

---------------------------------------------------------------------------
\* C1 (as claimed): in both scripts the counter of the final message is the
\* number of '{' minus the number of '}' of the whole file.
C1_Original ==
    /\ pcW = "done" => FinalW_count = CumBraces(nlines)
    /\ pcF = "done" /\ eof => FinalF_count = CumBraces(nlines)

\* C1 (amended): W reports '{' minus '}' of the whole file; F reports '{'
\* minus '}' of the lines up to and including the first line numbered above
\* 1300 whose braces change the counter, and of the whole file when there is
\* no such line.
C1_FinalCounter ==
    /\ pcW = "done" => FinalW_count = CumBraces(nlines)
    /\ pcF = "done" /\ eof => FinalF_count = CumBraces(LastScannedF)

\* both scripts have finished a file on which F stopped before braces that W
\* counted
C1_Witness ==
    /\ pcW = "done" /\ pcF = "done"
    /\ FinalW_count = CumBraces(nlines)
    /\ FinalF_count # FinalW_count

\* C2: every change record (line number, delta, cumulative) of either script
\* has delta = '{' minus '}' of that line and cumulative = '{' minus '}' of
\* lines 1..i; the file "{\n}\n" gives the cumulative values 1, 0 and the
\* final counter 0, the file "{{\n" gives one record with delta 2 and
\* cumulative 2.
C2_RecordsAreSums ==
    /\ \A k \in 1..Len(line_braces) :
          /\ line_braces[k].change = NetBraces(LineAt(line_braces[k].line_num))
          /\ line_braces[k].total = CumBraces(line_braces[k].line_num)
    /\ \A k \in 1..Len(outF) :
          IsChange(outF[k]) =>
             /\ outF[k].change = NetBraces(LineAt(outF[k].line_num))
             /\ outF[k].total = CumBraces(outF[k].line_num)
    /\ (eof /\ nlines = 2 /\ LineAt(1) = Open /\ LineAt(2) = Close) =>
          /\ pcW = "done" => Totals(line_braces) = <<1, 0>> /\ FinalW_count = 0
          /\ pcF = "done" => Totals(Changes(outF)) = <<1, 0>> /\ FinalF_count = 0
    /\ (eof /\ nlines = 1 /\ LineAt(1) = Open2) =>
          /\ pcW = "done" => Triples(line_braces) = << <<1, 2, 2>> >>
          /\ pcF = "done" => Triples(Changes(outF)) = << <<1, 2, 2>> >>

\* both scripts have finished the file "{\n}\n"
C2_Witness ==
    /\ eof /\ nlines = 2 /\ LineAt(1) = Open /\ LineAt(2) = Close
    /\ pcW = "done" /\ pcF = "done"
    /\ Len(line_braces) = 2 /\ Len(Changes(outF)) = 2

\* C3: a scanned line has a change record if and only if its '{' minus '}' is
\* not zero, and then it has exactly one: in W a record of line_braces, in F a
\* printed change.
C3_RecordIffChange ==
    /\ \A k \in 1..Len(line_braces) :
          /\ line_braces[k].line_num <= iW
          /\ NetBraces(LineAt(line_braces[k].line_num)) # 0
    /\ \A j \in DOMAIN nonblank :
          (j <= iW /\ NetBraces(nonblank[j]) # 0) =>
             Cardinality({k \in 1..Len(line_braces) : line_braces[k].line_num = j}) = 1
    /\ \A k \in 1..Len(outF) :
          IsChange(outF[k]) =>
             /\ outF[k].line_num <= iF
             /\ NetBraces(LineAt(outF[k].line_num)) # 0
    /\ \A j \in DOMAIN nonblank :
          (j <= iF /\ NetBraces(nonblank[j]) # 0) =>
             Cardinality({k \in 1..Len(outF) :
                            IsChange(outF[k]) /\ outF[k].line_num = j}) = 1

\* both scripts have scanned a line whose braces cancel out, a line of text
\* and a line that changes the counter
C3_Witness ==
    /\ \E j \in DOMAIN nonblank :
          nonblank[j] \in {Bal, Rev} /\ j <= iW /\ j <= iF
    /\ \E j \in DOMAIN nonblank : nonblank[j] = Text /\ j <= iW /\ j <= iF
    /\ Len(line_braces) = 1 /\ Len(Changes(outF)) = 1

PrintedW == {outW[k].line_num : k \in {m \in 1..Len(outW) : IsChange(outW[m])}}
RecordedW == {line_braces[k].line_num : k \in 1..Len(line_braces)}

\* C4 (as claimed): W prints exactly the change records with a line number
\* from 1200 to 1280, and never one below 1200 or above 1280.
C4_Original ==
    /\ \A n \in PrintedW : WindowStart <= n /\ n <= WindowEnd
    /\ pcW = "done" =>
          PrintedW = {n \in RecordedW : WindowStart <= n /\ n <= WindowEnd}

\* C4 (amended): W prints exactly the change records with a line number of
\* at least 1200 up to and including the first record with a line number of
\* at least 1280: none below 1200, and at most one above 1280 (the first
\* record past 1280 when no record has line number 1280).
C4_Window ==
    /\ PrintedW \subseteq RecordedW
    /\ \A n \in PrintedW : n >= WindowStart
    /\ Cardinality({n \in PrintedW : n > WindowEnd}) <= 1
    /\ pcW = "done" =>
          \A k \in 1..Len(line_braces) :
             line_braces[k].line_num \in PrintedW <=>
                /\ line_braces[k].line_num >= WindowStart
                /\ \A m \in 1..(k - 1) : line_braces[m].line_num < WindowEnd

\* W has finished a file with a record below the window, which it did not
\* print, and a record past the window, which it printed
C4_Witness ==
    /\ pcW = "done"
    /\ \E n \in RecordedW : n < WindowStart /\ n \notin PrintedW
    /\ \E n \in PrintedW : n > WindowEnd

\* C5 (as claimed): F neither counts nor prints a line numbered above 1300,
\* so that its final counter is '{' minus '}' of lines 1..1300.
C5_Original ==
    /\ \A k \in 1..Len(outF) : IsChange(outF[k]) => outF[k].line_num <= Cutoff
    /\ pcF = "done" => FinalF_count = CumBraces(Min2(Cutoff, nlines))

\* C5 (amended): F stops at the first line numbered above 1300 whose braces
\* change the counter: that line is counted and printed, no later line is
\* scanned, and the final counter is '{' minus '}' of the lines up to and
\* including it.
C5_StopsAtFirstChange ==
    /\ \A j \in PastCutoffChanges : iF <= j
    /\ Cardinality({k \in 1..Len(outF) :
                      IsChange(outF[k]) /\ outF[k].line_num > Cutoff}) <= 1
    /\ brace_countF = CumBraces(iF)
    /\ pcF = "done" => FinalF_count = CumBraces(iF)

\* F has finished after printing a line past the cutoff, and a later line of
\* the file that changes the counter was not scanned
C5_Witness ==
    /\ pcF = "done"
    /\ \E k \in 1..Len(outF) : IsChange(outF[k]) /\ outF[k].line_num > Cutoff
    /\ \E j \in PastCutoffChanges : j > iF

\* C6 (as claimed): every printed line of F that contains 'func ', has a
\* positive delta and leaves the counter above expected_class_level (1) is
\* annotated 'function starts at wrong level'.
C6_Original ==
    \A k \in 1..Len(outF) :
       ( /\ IsChange(outF[k])
         /\ ContainsFunc(LineAt(outF[k].line_num))
         /\ outF[k].change > 0
         /\ outF[k].total > expected_class_level ) =>
       outF[k].suspicious = WrongLevel

\* C6 (amended): ... and leaves the counter above expected_class_level + 1
\* (2) is annotated 'function starts at wrong level'.
C6_WrongLevel ==
    \A k \in 1..Len(outF) :
       ( /\ IsChange(outF[k])
         /\ ContainsFunc(LineAt(outF[k].line_num))
         /\ outF[k].change > 0
         /\ outF[k].total > expected_class_level + 1 ) =>
       outF[k].suspicious = WrongLevel

\* F has printed a 'func ' line that opens a brace at depth 3
C6_Witness ==
    \E k \in 1..Len(outF) :
       /\ IsChange(outF[k])
       /\ ContainsFunc(LineAt(outF[k].line_num))
       /\ outF[k].change > 0
       /\ outF[k].total > expected_class_level + 1
       /\ outF[k].suspicious = WrongLevel

\* C7: when the file cannot be opened, neither script prints anything or
\* scans a line: each ends in the uncaught error of open().
C7_NoOutputOnOpenFailure ==
    ~exists =>
       /\ pcW \in {"open", "crashed"} /\ outW = <<>> /\ iW = 0 /\ line_braces = <<>>
       /\ pcF \in {"open", "crashed"} /\ outF = <<>> /\ iF = 0

\* both scripts have failed on a file that cannot be opened
C7_Witness == ~exists /\ pcW = "crashed" /\ pcF = "crashed"

\* C8 (as claimed): F annotates a line 'below class level' only when the
\* delta is negative, the counter is below expected_class_level and the line
\* has no 'func '.
C8_Original ==
    \A k \in 1..Len(outF) :
       (IsChange(outF[k]) /\ outF[k].suspicious = BelowClass) =>
          /\ outF[k].change < 0
          /\ outF[k].total < expected_class_level
          /\ ~ContainsFunc(LineAt(outF[k].line_num))

\* C8 (amended): F annotates a line 'below class level' only when the
\* counter after the line is below expected_class_level and the line has no
\* 'func ', whatever the sign of the delta.
C8_BelowClass ==
    \A k \in 1..Len(outF) :
       (IsChange(outF[k]) /\ outF[k].suspicious = BelowClass) =>
          /\ outF[k].total < expected_class_level
          /\ ~ContainsFunc(LineAt(outF[k].line_num))

\* F has annotated a line on which the counter rises
C8_Witness ==
    \E k \in 1..Len(outF) :
       /\ IsChange(outF[k])
       /\ outF[k].suspicious = BelowClass
       /\ outF[k].change > 0

\* C9: the counter W prints in 'Final brace count at line 1280' is '{' minus
\* '}' of lines 1..1280.
C9_Original ==
    pcW = "done" => FinalW_count = CumBraces(Min2(WindowEnd, nlines))

\* C10: on a file of at most 1300 lines the changes F prints are, in order,
\* the (line number, delta, cumulative) triples of W's line_braces, and both
\* final counters are equal.
C10_ScriptsAgree ==
    (eof /\ nlines <= Cutoff /\ pcW = "done" /\ pcF = "done") =>
       /\ Triples(Changes(outF)) = Triples(line_braces)
       /\ FinalF_count = FinalW_count

\* both scripts have finished a file of 1300 lines with two change records
C10_Witness ==
    /\ eof /\ nlines = Cutoff /\ pcW = "done" /\ pcF = "done"
    /\ Len(line_braces) = 2
    /\ Triples(Changes(outF)) = Triples(line_braces)

====
